---- MODULE Spec2Model ----
(***************************************************************************)
(* Model of functions.py: the label aggregation rules, the dataset         *)
(* builder, the response parser, the row filter and the scorer.            *)
(*                                                                         *)
(* Every function of the module is pure.  A specification draws the        *)
(* function's inputs in its initial state and has one action per function, *)
(* which stores the outcome of the call (a returned value or a raised      *)
(* exception) in ret and the function's name in op.                        *)
(*                                                                         *)
(* Strings are sequences of lexical tokens: a label "0-Kein" is            *)
(* <<"0", "-", "Kein">>, and a response string is a sequence of            *)
(* punctuation, quoted-key, digit, whitespace and filler tokens.           *)
(***************************************************************************)
EXTENDS Integers, Sequences, FiniteSets, TLC

VARIABLES
    op,                  \* the function applied last ("none" before any call)
    item,                \* a tweet record: id, text, annotations (if present)
    is_test,             \* the is_test flag passed to the call
    drawn,               \* how response_string was put together (history)
    response_string,     \* the text handed to extract_dict_from_response
    real_data,           \* the ground-truth table
    prediction,          \* the prediction table handed to check_df
    list_of_predictions, \* the prediction tables handed to find_best_model
    ret                  \* outcome of the call named by op

vars == <<op, item, is_test, drawn, response_string, real_data, prediction,
          list_of_predictions, ret>>

(***************************************************************************)
(* Bounds of the model.                                                    *)
(***************************************************************************)
\* the largest number of annotations of a record
MaxAnn == 4

\* label mappings handed to the parser take every value vector over 0..MaxValue
MaxValue == 1

\* the largest number of rows (and of distinct index labels) of a filtered table
MaxRows == 3

\* the largest number of copies of one table at the head of a prediction list
MaxFill == 9

\* the largest number of further tables at the tail of a prediction list
MaxFree == 2

(***************************************************************************)
(* Python values and call outcomes.                                        *)
(***************************************************************************)
PyNone == [t |-> "None", v |-> 0]

PyInt(n) == [t |-> "int", v |-> n]

Return(x) == [tag |-> "return", val |-> x]

Raise(e) == [tag |-> "raise", exc |-> e]

NotCalled == [tag |-> "none"]

NothingDrawn == [pre |-> <<>>, form |-> "none", labels |-> <<>>, post |-> <<>>]

Range(s) == {s[i] : i \in 1..Len(s)}

(***************************************************************************)
(* Labels: category codes of the form "<digit>-<Name>".                    *)
(***************************************************************************)
Kein == <<"0", "-", "Kein">>

Labels == {Kein, <<"1", "-", "X">>, <<"2", "-", "Y">>, <<"3", "-", "Z", "-", "W">>}

DigitChars == {"0", "1", "2", "3", "4", "5", "6", "7", "8", "9"}

DigitString == <<"0", "1", "2", "3", "4", "5", "6", "7", "8", "9">>

DigitVal(c) ==
    CASE c = "0" -> 0 [] c = "1" -> 1 [] c = "2" -> 2 [] c = "3" -> 3
      [] c = "4" -> 4 [] c = "5" -> 5 [] c = "6" -> 6 [] c = "7" -> 7
      [] c = "8" -> 8 [] c = "9" -> 9

\* str.split('-')[0]: the tokens before the first '-' (all of them if none)
RECURSIVE SplitFirst(_)
SplitFirst(s) ==
    IF s = <<>> \/ Head(s) = "-" THEN <<>>
    ELSE <<Head(s)>> \o SplitFirst(Tail(s))

\* int(str): the decimal value of a non-empty digit string, ValueError otherwise
RECURSIVE DecimalValue(_, _)
DecimalValue(s, acc) ==
    IF s = <<>> THEN acc
    ELSE DecimalValue(Tail(s), 10 * acc + DigitVal(Head(s)))

int(s) ==
    IF s # <<>> /\ Range(s) \subseteq DigitChars
    THEN Return(DecimalValue(s, 0))
    ELSE Raise("ValueError")

(***************************************************************************)
(* collections.Counter and most_common(1).                                 *)
(***************************************************************************)
\* Counter(labels): <<key, count>> pairs in first-insertion order
RECURSIVE CounterFrom(_, _)
CounterFrom(labels, acc) ==
    IF labels = <<>> THEN acc
    ELSE LET l == Head(labels)
             pos == {i \in 1..Len(acc) : acc[i][1] = l}
         IN IF pos = {}
            THEN CounterFrom(Tail(labels), Append(acc, <<l, 1>>))
            ELSE LET i == CHOOSE j \in pos : TRUE
                 IN CounterFrom(Tail(labels),
                                [acc EXCEPT ![i] = <<l, acc[i][2] + 1>>])

Counter(labels) == CounterFrom(labels, <<>>)

\* a max() that keeps the last of several maximal items
RECURSIVE MaxScanLast(_, _)
MaxScanLast(items, best) ==
    IF items = <<>> THEN best
    ELSE MaxScanLast(Tail(items),
                     IF Head(items)[2] >= best[2] THEN Head(items) ELSE best)

max_by_count_last(items) == MaxScanLast(Tail(items), Head(items))

\* max() scans its argument and replaces the item held only by a larger one
RECURSIVE MaxScan(_, _)
MaxScan(items, best) ==
    IF items = <<>> THEN best
    ELSE MaxScan(Tail(items),
                 IF Head(items)[2] > best[2] THEN Head(items) ELSE best)

\* max(items, key=itemgetter(1)): the first item with the largest count
max_by_count(items) == MaxScan(Tail(items), Head(items))

\* Counter.most_common(1): heapq.nlargest(1, items) is [max(items)], [] if empty
most_common_1(counter) ==
    IF counter = <<>> THEN <<>> ELSE <<max_by_count(counter)>>

(***************************************************************************)
(* The five aggregation rules.                                             *)
(***************************************************************************)
\* [ann['label'] for ann in item['annotations']]
LabelsOf(it) == [i \in 1..Len(it.annotations) |-> it.annotations[i].label]

\* the mode compared with a misspelt background label: never equal
bin_maj_misspelt(it, test) ==
    IF ~test
    THEN IF ~it.has_annotations THEN Raise("KeyError")
         ELSE LET labels == LabelsOf(it)
                  mc == most_common_1(Counter(labels))
              IN IF mc = <<>> THEN Raise("IndexError")
                 ELSE LET majority_label == mc[1][1]
                      IN Return(PyInt(IF majority_label # <<"0", "-", "kein">>
                                      THEN 1 ELSE 0))
    ELSE Return(PyNone)

assign_bin_maj(it, test) ==
    IF ~test
    THEN IF ~it.has_annotations THEN Raise("KeyError")
         ELSE LET labels == LabelsOf(it)
                  mc == most_common_1(Counter(labels))
              IN IF mc = <<>> THEN Raise("IndexError")
                 ELSE LET majority_label == mc[1][1]
                      IN Return(PyInt(IF majority_label # Kein THEN 1 ELSE 0))
    ELSE Return(PyNone)

assign_bin_one(it, test) ==
    IF ~test
    THEN IF ~it.has_annotations THEN Raise("KeyError")
         ELSE Return(PyInt(IF \E i \in 1..Len(it.annotations) :
                               it.annotations[i].label # Kein
                         THEN 1 ELSE 0))
    ELSE Return(PyNone)

assign_bin_all(it, test) ==
    IF ~test
    THEN IF ~it.has_annotations THEN Raise("KeyError")
         ELSE Return(PyInt(IF \A i \in 1..Len(it.annotations) :
                               it.annotations[i].label # Kein
                         THEN 1 ELSE 0))
    ELSE Return(PyNone)

\* the majority test with >= in place of >
multi_maj_weak(it, test) ==
    IF ~test
    THEN IF ~it.has_annotations THEN Raise("KeyError")
         ELSE LET labels == LabelsOf(it)
                  mc == most_common_1(Counter(labels))
              IN IF mc = <<>> THEN Raise("IndexError")
                 ELSE LET majority_label == mc[1][1]
                          majority_count == mc[1][2]
                          chosen == IF 2 * majority_count >= Len(labels)
                                    THEN majority_label ELSE labels[1]
                          code == int(SplitFirst(chosen))
                      IN IF code.tag = "raise" THEN code
                         ELSE Return(PyInt(code.val))
    ELSE Return(PyNone)

assign_multi_maj(it, test) ==
    IF ~test
    THEN IF ~it.has_annotations THEN Raise("KeyError")
         ELSE LET labels == LabelsOf(it)
                  mc == most_common_1(Counter(labels))
              IN IF mc = <<>> THEN Raise("IndexError")
                 ELSE LET majority_label == mc[1][1]
                          majority_count == mc[1][2]
                          \* majority_count > len(labels) / 2
                          chosen == IF 2 * majority_count > Len(labels)
                                    THEN majority_label ELSE labels[1]
                          code == int(SplitFirst(chosen))
                      IN IF code.tag = "raise" THEN code
                         ELSE Return(PyInt(code.val))
    ELSE Return(PyNone)

\* the disagreement test on the number of annotations, not of distinct labels
disagree_bin_by_len(it, test) ==
    IF ~test
    THEN IF ~it.has_annotations THEN Raise("KeyError")
         ELSE LET labels == LabelsOf(it)
              IN Return(PyInt(IF Kein \in Range(labels) /\ Len(labels) > 1
                            THEN 1 ELSE 0))
    ELSE Return(PyNone)

assign_disagree_bin(it, test) ==
    IF ~test
    THEN IF ~it.has_annotations THEN Raise("KeyError")
         ELSE LET labels == LabelsOf(it)
                  unique_labels == Range(labels)
              IN Return(PyInt(IF Kein \in unique_labels
                               /\ Cardinality(unique_labels) > 1
                            THEN 1 ELSE 0))
    ELSE Return(PyNone)

(***************************************************************************)
(* Dataset builder.                                                        *)
(***************************************************************************)
\* text.replace('\n', ' ')
ReplaceNewlines(text) ==
    [i \in 1..Len(text) |-> IF text[i] = "\n" THEN " " ELSE text[i]]

\* total_data calls every rule as assign_x(item): is_test is not passed on
total_data(it, test) ==
    LET text == ReplaceNewlines(it.text)
        r1 == assign_bin_maj(it, FALSE)
        r2 == assign_bin_one(it, FALSE)
        r3 == assign_bin_all(it, FALSE)
        r4 == assign_multi_maj(it, FALSE)
        r5 == assign_disagree_bin(it, FALSE)
    IN IF r1.tag = "raise" THEN r1
       ELSE IF r2.tag = "raise" THEN r2
       ELSE IF r3.tag = "raise" THEN r3
       ELSE IF r4.tag = "raise" THEN r4
       ELSE IF r5.tag = "raise" THEN r5
       ELSE Return([id |-> it.id, text |-> text,
                    bin_maj_label |-> r1.val, bin_one_label |-> r2.val,
                    bin_all_label |-> r3.val, multi_maj_label |-> r4.val,
                    disagree_bin_label |-> r5.val])

(***************************************************************************)
(* Response parser: the two regular expressions.                           *)
(*                                                                         *)
(* A pattern is a sequence of elements: a literal token, \s* or a captured *)
(* \d.  In both patterns every \s* is followed by an element that matches  *)
(* no whitespace, so the greedy \s* never has to give characters back and  *)
(* a match from a given start is unique.                                   *)
(***************************************************************************)
Lit(c) == [k |-> "lit", c |-> c]

Ws == [k |-> "ws", c |-> ""]

Dig == [k |-> "dig", c |-> ""]

LabelKeys == <<"'bin_maj_label'", "'bin_one_label'", "'bin_all_label'",
               "'multi_maj_label'", "'disagree_bin_label'">>

\* \s on str patterns: Unicode whitespace, vertical tab (U+000B) included
IsSpace(c) == c \in {" ", "\n", "\t", "U+000B"}

\* \d: a decimal digit
IsDigit(c) == c \in DigitChars

\* 'key':\s*(\d)
KeyValue(i) == <<Lit(LabelKeys[i]), Lit(":"), Ws, Dig>>

\* ,\s*
Comma == <<Lit(","), Ws>>

\* \\\s*n\s*
EscapedNewline == <<Lit("\\"), Ws, Lit("n"), Ws>>

pattern_1 ==
    <<Lit("{")>> \o KeyValue(1) \o Comma \o KeyValue(2) \o Comma
        \o KeyValue(3) \o Comma \o KeyValue(4) \o Comma \o KeyValue(5)
        \o <<Lit("}")>>

pattern_2 ==
    <<Lit("{")>> \o EscapedNewline \o KeyValue(1)
        \o Comma \o EscapedNewline \o KeyValue(2)
        \o Comma \o EscapedNewline \o KeyValue(3)
        \o Comma \o EscapedNewline \o KeyValue(4)
        \o Comma \o EscapedNewline \o KeyValue(5)
        \o <<Ws>> \o EscapedNewline \o <<Lit("}")>>

NoMatch == [found |-> FALSE, start |-> 0, end |-> 0, groups |-> <<>>]

RECURSIVE SkipSpace(_, _)
SkipSpace(s, i) ==
    IF i <= Len(s) /\ IsSpace(s[i]) THEN SkipSpace(s, i + 1) ELSE i

\* match pat[j..] against s from position i; groups holds the captures so far
RECURSIVE MatchFrom(_, _, _, _, _, _)
MatchFrom(s, start, i, pat, j, groups) ==
    IF j > Len(pat)
    THEN [found |-> TRUE, start |-> start, end |-> i - 1, groups |-> groups]
    ELSE LET e == pat[j]
         IN CASE e.k = "ws" ->
                   MatchFrom(s, start, SkipSpace(s, i), pat, j + 1, groups)
              [] e.k = "dig" ->
                   IF i <= Len(s) /\ IsDigit(s[i])
                   THEN MatchFrom(s, start, i + 1, pat, j + 1, Append(groups, s[i]))
                   ELSE NoMatch
              [] e.k = "lit" ->
                   IF i <= Len(s) /\ s[i] = e.c
                   THEN MatchFrom(s, start, i + 1, pat, j + 1, groups)
                   ELSE NoMatch

RECURSIVE SearchFrom(_, _, _)
SearchFrom(pat, s, i) ==
    IF i > Len(s) THEN NoMatch
    ELSE LET m == MatchFrom(s, i, i, pat, 1, <<>>)
         IN IF m.found THEN m ELSE SearchFrom(pat, s, i + 1)

\* re.match in place of re.search: a match at the start of the string only
re_match(pat, s) == MatchFrom(s, 1, 1, pat, 1, <<>>)

\* re.search(pattern, string, re.DOTALL): the leftmost match, if any
re_search(pat, s) == SearchFrom(pat, s, 1)

\* match.group(0)
Group0(s, m) == SubSeq(s, m.start, m.end)

(***************************************************************************)
(* Response parser: ast.literal_eval on the matched text.                  *)
(***************************************************************************)
\* the string a quoted-key token denotes
KeyName(tok) ==
    CASE tok = "'bin_maj_label'" -> "bin_maj_label"
      [] tok = "'bin_one_label'" -> "bin_one_label"
      [] tok = "'bin_all_label'" -> "bin_all_label"
      [] tok = "'multi_maj_label'" -> "multi_maj_label"
      [] tok = "'disagree_bin_label'" -> "disagree_bin_label"

\* Python's tokenizer inside brackets: blanks, tabs and newlines separate
\* tokens, a backslash must be followed by a newline (a line continuation),
\* and any other non-printable character is a SyntaxError.
RECURSIVE Tokenize(_, _)
Tokenize(s, acc) ==
    IF s = <<>> THEN Return(acc)
    ELSE LET c == Head(s)
         IN CASE c \in {" ", "\n", "\t"} -> Tokenize(Tail(s), acc)
              [] c = "\\" ->
                   IF Len(s) >= 2 /\ s[2] = "\n"
                   THEN Tokenize(Tail(Tail(s)), acc)
                   ELSE Raise("SyntaxError")
              [] c = "U+000B" -> Raise("SyntaxError")
              [] OTHER -> Tokenize(Tail(s), Append(acc, c))

\* the entries  key : digit (, key : digit)* [,]  of a dict display, up to "}"
RECURSIVE ParseEntries(_, _)
ParseEntries(toks, acc) ==
    IF Len(toks) >= 3 /\ toks[1] \in Range(LabelKeys) /\ toks[2] = ":"
       /\ toks[3] \in DigitChars
    THEN LET entry == <<KeyName(toks[1]), DigitVal(toks[3])>>
             rest == SubSeq(toks, 4, Len(toks))
         IN IF rest = <<"}">> \/ rest = <<",", "}">>
            THEN Return(Append(acc, entry))
            ELSE IF Len(rest) >= 2 /\ rest[1] = ","
                 THEN ParseEntries(Tail(rest), Append(acc, entry))
                 ELSE Raise("SyntaxError")
    ELSE Raise("SyntaxError")

\* dict(entries): the value of a key is the one given last
DictOf(entries) ==
    [k \in {entries[i][1] : i \in 1..Len(entries)} |->
        LET last == CHOOSE i \in 1..Len(entries) :
                        /\ entries[i][1] = k
                        /\ \A j \in (i + 1)..Len(entries) : entries[j][1] # k
        IN PyInt(entries[last][2])]

\* ast.literal_eval(dict_str) on text made of the tokens above
literal_eval(dict_str) ==
    LET toks == Tokenize(dict_str, <<>>)
    IN IF toks.tag = "raise" THEN toks
       ELSE IF toks.val = <<>> \/ Head(toks.val) # "{" THEN Raise("SyntaxError")
       ELSE IF toks.val = <<"{", "}">> THEN Return(<<>>)
       ELSE LET entries == ParseEntries(Tail(toks.val), <<>>)
            IN IF entries.tag = "raise" THEN entries
               ELSE Return(DictOf(entries.val))

extract_dict_from_response(s) ==
    LET match1 == re_search(pattern_1, s)
        match2 == re_search(pattern_2, s)
    IN IF match1.found
       THEN LET result_dict == literal_eval(Group0(s, match1))
            IN IF result_dict.tag = "raise" THEN result_dict
               ELSE Return(<<TRUE, result_dict.val>>)
       ELSE IF match2.found
       THEN LET result_dict == literal_eval(Group0(s, match2))
            IN IF result_dict.tag = "raise" THEN result_dict
               ELSE Return(<<TRUE, result_dict.val>>)
       ELSE Return(<<FALSE>>)

(***************************************************************************)
(* Tables: a DataFrame is a sequence of rows, each with its index label    *)
(* and its cells; a missing cell (None, NaN) is PyNone.                    *)
(***************************************************************************)
Row(label, cells) == [index |-> label, cells |-> cells]

\* pd.isna(value)
isna(value) == value.t = "None"

\* df.loc[keys] with a list of index labels: for every key in turn, all the
\* rows carrying that label, in table order; KeyError if a label is missing
RECURSIVE loc(_, _)
loc(df, keys) ==
    IF keys = <<>> THEN Return(<<>>)
    ELSE LET hits == SelectSeq(df, LAMBDA r : r.index = Head(keys))
             rest == loc(df, Tail(keys))
         IN IF hits = <<>> THEN Raise("KeyError")
            ELSE IF rest.tag = "raise" THEN rest
            ELSE Return(hits \o rest.val)

\* the loop of check_df over prediction.iterrows()
RECURSIVE IndicesToKeep(_)
IndicesToKeep(df) ==
    IF df = <<>> THEN <<>>
    ELSE LET row == Head(df)
         IN (IF ~(\E c \in 1..Len(row.cells) : isna(row.cells[c]))
             THEN <<row.index>> ELSE <<>>)
            \o IndicesToKeep(Tail(df))

check_df(real, pred) ==
    LET indices_to_keep == IndicesToKeep(pred)
        printed == Len(pred) - Len(indices_to_keep)
        real_kept == loc(real, indices_to_keep)
        pred_kept == loc(pred, indices_to_keep)
    IN IF real_kept.tag = "raise" THEN real_kept
       ELSE IF pred_kept.tag = "raise" THEN pred_kept
       ELSE Return([real_data |-> real_kept.val, prediction |-> pred_kept.val,
                    removed |-> printed])

(***************************************************************************)
(* Scorer.  A weighted F1 over n samples is kept exactly, as an integer    *)
(* number of units of 1 / (n * F1Unit(n)), where the program holds the     *)
(* nearest float; all scores compared in one call are over the n rows of   *)
(* real_data.                                                              *)
(***************************************************************************)
RECURSIVE Gcd(_, _)
Gcd(a, b) == IF b = 0 THEN a ELSE Gcd(b, a % b)

RECURSIVE LcmUpTo(_)
LcmUpTo(m) ==
    IF m <= 1 THEN 1
    ELSE LET l == LcmUpTo(m - 1) IN (l * m) \div Gcd(l, m)

\* a common multiple of every denominator 2tp + fp + fn <= 2n
F1Unit(n) == LcmUpTo(2 * n)

RECURSIVE SumSeq(_)
SumSeq(s) == IF s = <<>> THEN 0 ELSE Head(s) + SumSeq(Tail(s))

\* sklearn's f1_score(y_true, y_pred, average='weighted'): the per-class F1
\* 2tp / (2tp + fp + fn) weighted by the class's support in y_true, so every
\* sample contributes the F1 of its true class
f1_score(y_true, y_pred) ==
    IF Len(y_true) # Len(y_pred) THEN Raise("ValueError")
    ELSE LET n == Len(y_true)
             tp(c) == Cardinality({i \in 1..n : y_true[i] = c /\ y_pred[i] = c})
             fp(c) == Cardinality({i \in 1..n : y_true[i] # c /\ y_pred[i] = c})
             fn(c) == Cardinality({i \in 1..n : y_true[i] = c /\ y_pred[i] # c})
             f1(c) == (2 * tp(c) * F1Unit(n)) \div (2 * tp(c) + fp(c) + fn(c))
         IN Return(SumSeq([i \in 1..n |-> f1(y_true[i])]))

compute_metrics(lbls, preds) ==
    LET f1 == f1_score(lbls, preds)
    IN IF f1.tag = "raise" THEN f1 ELSE Return([f1 |-> f1.val])

\* df['<label column>']: the column of the i-th label field
Column(df, i) == [r \in 1..Len(df) |-> df[r].cells[i]]

\* the five scores compute_f1 prints, and find_best_model sums
FiveScores(real, pred) ==
    LET m == [i \in 1..5 |-> compute_metrics(Column(real, i), Column(pred, i))]
    IN IF \E i \in 1..5 : m[i].tag = "raise"
       THEN m[CHOOSE i \in 1..5 :
                 m[i].tag = "raise" /\ \A j \in 1..(i - 1) : m[j].tag # "raise"]
       ELSE Return([i \in 1..5 |-> m[i].val.f1])

compute_f1(real, pred) == FiveScores(real, pred)

key == <<"Bert_VSI_5", "Bert_VSI_10", "Bert_VSI_20", "e5_VSI_5", "e5_VSI_10",
         "e5_VSI_20", "KTI_5", "KTI_10", "KTI_20">>

\* a max() that keeps the last of several maximal indices
RECURSIVE ArgMaxScanLast(_, _, _)
ArgMaxScanLast(scores, i, best) ==
    IF i > Len(scores) THEN best
    ELSE ArgMaxScanLast(scores, i + 1,
                        IF scores[i] >= scores[best] THEN i ELSE best)

arg_max_last(scores) == ArgMaxScanLast(scores, 2, 1)

\* max() scans the indices and replaces the one held only by a larger score
RECURSIVE ArgMaxScan(_, _, _)
ArgMaxScan(scores, i, best) ==
    IF i > Len(scores) THEN best
    ELSE ArgMaxScan(scores, i + 1, IF scores[i] > scores[best] THEN i ELSE best)

\* max(range(len(f1_scores)), key=lambda i: f1_scores[i]): the first index
\* (counted from 1 here) with the largest score
arg_max(scores) == ArgMaxScan(scores, 2, 1)

find_best_model(real, preds) ==
    LET five == [i \in 1..Len(preds) |-> FiveScores(real, preds[i])]
    IN IF \E i \in 1..Len(preds) : five[i].tag = "raise"
       THEN five[CHOOSE i \in 1..Len(preds) :
                    five[i].tag = "raise"
                    /\ \A j \in 1..(i - 1) : five[j].tag # "raise"]
       ELSE LET f1_scores == [i \in 1..Len(preds) |-> SumSeq(five[i].val)]
            IN IF f1_scores = <<>> THEN Raise("ValueError")
               ELSE LET max_index == arg_max(f1_scores)
                    IN IF max_index > Len(key) THEN Raise("IndexError")
                       ELSE LET printed == compute_f1(real, preds[max_index])
                            IN IF printed.tag = "raise" THEN printed
                               ELSE Return([max_index |-> max_index,
                                            name |-> key[max_index],
                                            scores |-> printed.val])

(***************************************************************************)
(* Inputs of the aggregation rules.                                        *)
(***************************************************************************)
RECURSIVE SeqsUpTo(_, _)
SeqsUpTo(S, n) ==
    IF n = 0 THEN {<<>>}
    ELSE LET shorter == SeqsUpTo(S, n - 1)
         IN shorter \cup {Append(s, x) : s \in shorter, x \in S}

Annotations == {[label |-> l] : l \in Labels}

Texts == {<<"a">>, <<"a", "\n", "b">>}

Items ==
    {[id |-> 1, text |-> t, has_annotations |-> TRUE, annotations |-> a] :
        t \in Texts, a \in SeqsUpTo(Annotations, MaxAnn)}
    \cup {[id |-> 1, text |-> t, has_annotations |-> FALSE, annotations |-> <<>>] :
            t \in Texts}

NoItem == [id |-> 0, text |-> <<>>, has_annotations |-> FALSE, annotations |-> <<>>]

(***************************************************************************)
(* Inputs of the response parser: a rendering of a label mapping in one of *)
(* several surface forms, between a leading and a trailing text.           *)
(***************************************************************************)
LabelFields == <<"bin_maj_label", "bin_one_label", "bin_all_label",
                 "multi_maj_label", "disagree_bin_label">>

\* the label mapping with the five values v[1..5]
DerivedLabels(v) ==
    [k \in Range(LabelFields) |->
        PyInt(v[CHOOSE i \in 1..5 : LabelFields[i] = k])]

\* repr of a non-negative int
RECURSIVE Decimal(_)
Decimal(n) ==
    IF n < 10 THEN <<DigitString[n + 1]>>
    ELSE Decimal(n \div 10) \o <<DigitString[(n % 10) + 1]>>

Repr(x) == IF x.t = "None" THEN <<"None">> ELSE Decimal(x.v)

\* the entries of a mapping: open, then per key  lead key : gap value,
\* entries separated by a comma and sep, then close
Layout(m, open, lead, gap, sep, close) ==
    LET entry(i) == lead \o <<LabelKeys[i], ":">> \o gap \o Repr(m[LabelFields[i]])
    IN open \o entry(1) \o <<",">> \o sep \o entry(2) \o <<",">> \o sep
            \o entry(3) \o <<",">> \o sep \o entry(4) \o <<",">> \o sep
            \o entry(5) \o close

\* str(m): Python's rendering of the mapping
Render(m) == Layout(m, <<"{">>, <<>>, <<" ">>, <<" ">>, <<"}">>)

\* the surface forms a response may carry the mapping in
Form(f, m) ==
    CASE f = "plain" -> Render(m)
      [] f = "compact" -> Layout(m, <<"{">>, <<>>, <<>>, <<>>, <<"}">>)
      [] f = "newlines" -> Layout(m, <<"{">>, <<>>, <<"\n", " ">>, <<"\n">>, <<"}">>)
      [] f = "vtab" -> Layout(m, <<"{">>, <<>>, <<"U+000B">>, <<" ">>, <<"}">>)
      [] f = "escaped" ->
           Layout(m, <<"{">>, <<"\\", "n">>, <<" ">>, <<>>, <<"\\", "n", "}">>)
      [] f = "continued" ->
           Layout(m, <<"{">>, <<"\\", "\n", "n">>, <<" ">>, <<>>,
                  <<"\\", "\n", "n", "}">>)
      [] f = "unclosed" -> Layout(m, <<"{">>, <<>>, <<" ">>, <<" ">>, <<>>)
      [] f = "none" -> <<>>

Forms == {"plain", "compact", "newlines", "vtab", "escaped", "continued",
          "unclosed"}

LabelVectors ==
    [1..5 -> 0..MaxValue] \cup {<<5, 6, 7, 8, 9>>, <<4, 3, 2, 1, 0>>}

\* a mapping no drawn mapping equals, as long as MaxValue stays below 7
Other == DerivedLabels(<<7, 7, 7, 7, 7>>)

Pres == {<<>>, <<"x">>, <<"x", "{">>, Render(Other) \o <<" ">>,
         Form("escaped", Other), Form("unclosed", Other) \o <<"x">>}

Posts == {<<>>, <<"x">>, Render(Other)}

Draws ==
    {[pre |-> a, form |-> f, labels |-> DerivedLabels(v), post |-> b] :
        a \in Pres, f \in Forms, v \in LabelVectors, b \in Posts}
    \cup {[pre |-> a, form |-> "none", labels |-> Other, post |-> b] :
            a \in Pres, b \in Posts}

Compose(d) == d.pre \o Form(d.form, d.labels) \o d.post

(***************************************************************************)
(* Specification of the aggregator: the rules applied to one record.       *)
(***************************************************************************)
InitAgg ==
    /\ op = "none"
    /\ item \in Items
    /\ is_test \in BOOLEAN
    /\ drawn = NothingDrawn
    /\ response_string = <<>>
    /\ real_data = <<>>
    /\ prediction = <<>>
    /\ list_of_predictions = <<>>
    /\ ret = NotCalled

InputsUnchanged ==
    UNCHANGED <<item, is_test, drawn, response_string, real_data, prediction,
                list_of_predictions>>

CallAssignBinMaj ==
    /\ op' = "assign_bin_maj"
    /\ ret' = assign_bin_maj(item, is_test)
    /\ InputsUnchanged

CallAssignBinOne ==
    /\ op' = "assign_bin_one"
    /\ ret' = assign_bin_one(item, is_test)
    /\ InputsUnchanged

CallAssignBinAll ==
    /\ op' = "assign_bin_all"
    /\ ret' = assign_bin_all(item, is_test)
    /\ InputsUnchanged

CallAssignMultiMaj ==
    /\ op' = "assign_multi_maj"
    /\ ret' = assign_multi_maj(item, is_test)
    /\ InputsUnchanged

CallAssignDisagreeBin ==
    /\ op' = "assign_disagree_bin"
    /\ ret' = assign_disagree_bin(item, is_test)
    /\ InputsUnchanged

CallTotalData ==
    /\ op' = "total_data"
    /\ ret' = total_data(item, is_test)
    /\ InputsUnchanged

NextAgg ==
    \/ CallAssignBinMaj
    \/ CallAssignBinOne
    \/ CallAssignBinAll
    \/ CallAssignMultiMaj
    \/ CallAssignDisagreeBin
    \/ CallTotalData

SpecAgg == InitAgg /\ [][NextAgg]_vars

(***************************************************************************)
(* Specification of the response parser.                                   *)
(***************************************************************************)
InitParse ==
    /\ op = "none"
    /\ item = NoItem
    /\ is_test = FALSE
    /\ drawn \in Draws
    /\ response_string = Compose(drawn)
    /\ real_data = <<>>
    /\ prediction = <<>>
    /\ list_of_predictions = <<>>
    /\ ret = NotCalled

CallExtractDict ==
    /\ op' = "extract_dict_from_response"
    /\ ret' = extract_dict_from_response(response_string)
    /\ InputsUnchanged

NextParse == CallExtractDict

SpecParse == InitParse /\ [][NextParse]_vars

(***************************************************************************)
(* Inputs of the row filter: a prediction table of up to MaxRows rows over *)
(* two columns, and a ground-truth table with the same index labels whose  *)
(* cell tells the row's position.                                          *)
(***************************************************************************)
CellRows == {<<PyInt(1), PyInt(0)>>, <<PyNone, PyInt(0)>>,
             <<PyInt(1), PyNone>>, <<PyNone, PyNone>>}

PredictionTables ==
    SeqsUpTo({Row(l, c) : l \in 0..(MaxRows - 1), c \in CellRows}, MaxRows)

\* the ground truth aligned with a prediction table
TruthFor(pred) == [i \in 1..Len(pred) |-> Row(pred[i].index, <<PyInt(i)>>)]

(***************************************************************************)
(* Specification of the row filter.                                        *)
(***************************************************************************)
InitFilter ==
    /\ op = "none"
    /\ item = NoItem
    /\ is_test = FALSE
    /\ drawn = NothingDrawn
    /\ response_string = <<>>
    /\ prediction \in PredictionTables
    /\ real_data = TruthFor(prediction)
    /\ list_of_predictions = <<>>
    /\ ret = NotCalled

CallCheckDf ==
    /\ op' = "check_df"
    /\ ret' = check_df(real_data, prediction)
    /\ InputsUnchanged

NextFilter == CallCheckDf

SpecFilter == InitFilter /\ [][NextFilter]_vars

(***************************************************************************)
(* Inputs of the scorer: two-row tables of derived labels; a list of       *)
(* predictions is up to MaxFill copies of one table followed by up to      *)
(* MaxFree tables, one of which may equal the ground truth.                *)
(***************************************************************************)
LabelTable(r1, r2) == <<Row(0, r1), Row(1, r2)>>

RowA == <<1, 1, 1, 1, 0>>

RowB == <<0, 0, 0, 0, 0>>

RowC == <<1, 1, 0, 2, 1>>

TruthTables == {LabelTable(RowA, RowB), LabelTable(RowB, RowC)}

FillTables == {LabelTable(RowC, RowA), LabelTable(RowB, RowB)}

FreeTables == {LabelTable(RowA, RowB), LabelTable(RowB, RowC),
               LabelTable(RowC, RowA), LabelTable(RowA, RowA)}

Fill(k, t) == [i \in 1..k |-> t]

PredictionLists ==
    {Fill(k, t) \o free :
        k \in 0..MaxFill, t \in FillTables, free \in SeqsUpTo(FreeTables, MaxFree)}

(***************************************************************************)
(* Specification of the scorer.                                            *)
(***************************************************************************)
InitBest ==
    /\ op = "none"
    /\ item = NoItem
    /\ is_test = FALSE
    /\ drawn = NothingDrawn
    /\ response_string = <<>>
    /\ prediction = <<>>
    /\ real_data \in TruthTables
    /\ list_of_predictions \in PredictionLists
    /\ ret = NotCalled

CallFindBestModel ==
    /\ op' = "find_best_model"
    /\ ret' = find_best_model(real_data, list_of_predictions)
    /\ InputsUnchanged

NextBest == CallFindBestModel

SpecBest == InitBest /\ [][NextBest]_vars

(***************************************************************************)
(* Claims about the aggregation rules, checked under SpecAgg.              *)
(***************************************************************************)
RuleNames == {"assign_bin_maj", "assign_bin_one", "assign_bin_all",
              "assign_multi_maj", "assign_disagree_bin"}

\* the labels of the record in hand, in annotation order
ItemLabels == [i \in 1..Len(item.annotations) |-> item.annotations[i].label]

\* the record in hand carries at least one annotation
Annotated == item.has_annotations /\ Len(item.annotations) >= 1

CountIn(labels, l) == Cardinality({i \in 1..Len(labels) : labels[i] = l})

FirstIndex(labels, l) ==
    CHOOSE i \in 1..Len(labels) :
        labels[i] = l /\ \A j \in 1..(i - 1) : labels[j] # l

\* the most frequent label, the earliest-occurring one among those tied
ModeFirst(labels) ==
    CHOOSE l \in Range(labels) :
        \A m \in Range(labels) \ {l} :
            \/ CountIn(labels, l) > CountIn(labels, m)
            \/ /\ CountIn(labels, l) = CountIn(labels, m)
               /\ FirstIndex(labels, l) < FirstIndex(labels, m)

\* the integer written before the first '-' of a "<digit>-<Name>" label
LeadingCode(l) == CHOOSE n \in 0..9 : l[1] = DigitString[n + 1] /\ l[2] = "-"

StrictMajority(labels) ==
    {l \in Range(labels) : 2 * CountIn(labels, l) > Len(labels)}

\* C1 (as claimed): on a record whose annotation list is empty, each of the
\* five rules called with is_test=False raises; none returns a label.
C1_EmptyAnnotationsRaise ==
    (op \in RuleNames /\ ~is_test /\ item.has_annotations
        /\ item.annotations = <<>>)
    => ret.tag = "raise"

\* C3: on a record with at least one annotation, assign_multi_maj returns the
\* leading code of the label held by a strict majority of the annotations,
\* and the leading code of the first annotation's label when there is none.
C3_MultiMaj ==
    (op = "assign_multi_maj" /\ ~is_test /\ Annotated)
    => /\ ret.tag = "return"
       /\ ret.val = PyInt(IF StrictMajority(ItemLabels) # {}
                          THEN LeadingCode(CHOOSE l \in StrictMajority(ItemLabels) : TRUE)
                          ELSE LeadingCode(ItemLabels[1]))

\* C3 witness: a strict majority that is not the first annotation's label.
C3_Witness ==
    /\ op = "assign_multi_maj" /\ ~is_test
    /\ ItemLabels = <<<<"1", "-", "X">>, <<"2", "-", "Y">>, <<"2", "-", "Y">>>>
    /\ ret = Return(PyInt(2))

C6_BinaryOrder ==
    (op = "total_data" /\ Annotated)
    => /\ ret.tag = "return"
       /\ ret.val.bin_all_label.v <= ret.val.bin_maj_label.v
       /\ ret.val.bin_maj_label.v <= ret.val.bin_one_label.v

\* C6 witness: a record whose three binary labels differ (0, 1 at the ends).
C6_Witness ==
    /\ op = "total_data" /\ Annotated /\ ret.tag = "return"
    /\ ret.val.bin_all_label = PyInt(0)
    /\ ret.val.bin_maj_label = PyInt(1)
    /\ ret.val.bin_one_label = PyInt(1)

\* C9: on a record with at least one annotation, assign_disagree_bin returns
\* 1 exactly when some annotation is "0-Kein" and some annotation is not, and
\* returns 0 otherwise.
C9_DisagreeBin ==
    (op = "assign_disagree_bin" /\ ~is_test /\ Annotated)
    => /\ ret.tag = "return"
       /\ ret.val = PyInt(IF /\ \E i \in 1..Len(ItemLabels) : ItemLabels[i] = Kein
                             /\ \E j \in 1..Len(ItemLabels) : ItemLabels[j] # Kein
                          THEN 1 ELSE 0)

\* C9 witness: "0-Kein" beside another label gives 1.
C9_Witness ==
    /\ op = "assign_disagree_bin" /\ ~is_test
    /\ ItemLabels = <<Kein, Kein, <<"2", "-", "Y">>>>
    /\ ret = Return(PyInt(1))

\* C10 (as claimed): with is_test=True every rule returns the null sentinel,
\* and total_data returns id, text and five null labels without reading the
\* annotations, also when the record has none.
C10_TestPassThrough ==
    /\ (op \in RuleNames /\ is_test) => ret = Return(PyNone)
    /\ (op = "total_data" /\ is_test)
       => /\ ret.tag = "return"
          /\ ret.val.id = item.id
          /\ ret.val.bin_maj_label = PyNone
          /\ ret.val.bin_one_label = PyNone
          /\ ret.val.bin_all_label = PyNone
          /\ ret.val.multi_maj_label = PyNone
          /\ ret.val.disagree_bin_label = PyNone

(***************************************************************************)
(* Claims about the response parser, checked under SpecParse.              *)
(***************************************************************************)
Parsed == op = "extract_dict_from_response"

\* the match extract_dict_from_response works on: pattern_1's if there is one
UsedMatch ==
    LET m1 == re_search(pattern_1, response_string)
    IN IF m1.found THEN m1 ELSE re_search(pattern_2, response_string)

\* the matched text is of an accepted surface syntax: blanks, tabs or
\* newlines for whitespace
AcceptedSyntax(m) ==
    m.found /\ "U+000B" \notin Range(Group0(response_string, m))

\* C2 (as claimed): on an input containing a match of either accepted surface
\* syntax the parser returns [True, mapping], the mapping giving the five
\* keys the five captured digits as integers; it raises no error.
C2_MatchParses ==
    (Parsed /\ AcceptedSyntax(UsedMatch))
    => /\ ret.tag = "return"
       /\ ret.val = <<TRUE, DerivedLabels([i \in 1..5 |->
                                              DigitVal(UsedMatch.groups[i])])>>

\* C5 (as claimed): the parser applied to the rendering of a label mapping
\* with values 0..9, embedded anywhere in surrounding text, returns
\* [True, m] with m the mapping rendered.
C5_RoundTripAnywhere ==
    (Parsed /\ drawn.form = "plain")
    => /\ ret.tag = "return"
       /\ ret.val = <<TRUE, drawn.labels>>

\* C5 (amended): the same, provided the text before the rendering holds no
\* match of pattern_1.
C5_RoundTrip ==
    (Parsed /\ drawn.form = "plain" /\ ~re_search(pattern_1, drawn.pre).found)
    => /\ ret.tag = "return"
       /\ ret.val = <<TRUE, drawn.labels>>

\* C5 witness: a rendering after an escaped-newline rendering of another
\* mapping and before a plain rendering of it is parsed back.
C5_Witness ==
    /\ Parsed
    /\ drawn.form = "plain"
    /\ drawn.labels = DerivedLabels(<<5, 6, 7, 8, 9>>)
    /\ drawn.pre = Form("escaped", Other)
    /\ drawn.post = Render(Other)
    /\ ret = Return(<<TRUE, drawn.labels>>)

(***************************************************************************)
(* Claims about the row filter, checked under SpecFilter.                  *)
(***************************************************************************)
\* the positions of the prediction rows without a missing value
CompletePositions ==
    {i \in 1..Len(prediction) :
        \A c \in 1..Len(prediction[i].cells) : prediction[i].cells[c].t # "None"}

\* the rows of a table at the positions P, in table order
RECURSIVE RowsAt(_, _, _)
RowsAt(df, P, i) ==
    IF i > Len(df) THEN <<>>
    ELSE (IF i \in P THEN <<df[i]>> ELSE <<>>) \o RowsAt(df, P, i + 1)

\* C8 (as claimed): check_df returns both tables restricted to exactly the
\* positions at which the prediction row has no missing value, in the
\* original order, and the reported count of removed entries is the number
\* of prediction rows minus the number of rows kept.
C8_RowFilter ==
    op = "check_df"
    => /\ ret.tag = "return"
       /\ ret.val.prediction = RowsAt(prediction, CompletePositions, 1)
       /\ ret.val.real_data = RowsAt(real_data, CompletePositions, 1)
       /\ ret.val.removed = Len(prediction) - Len(ret.val.prediction)

(***************************************************************************)
(* Claims about the scorer, checked under SpecBest.                        *)
(***************************************************************************)
\* the sum of the five F1 scores of the i-th prediction table
SumOfScores(i) == SumSeq(FiveScores(real_data, list_of_predictions[i]).val)

\* the outcome is a selection of the lowest index among the tables with the
\* largest sum, with the name at that position and that table's five scores
SelectsFirstBest ==
    /\ ret.tag = "return"
    /\ ret.val.max_index \in 1..Len(list_of_predictions)
    /\ LET best == SumOfScores(ret.val.max_index)
       IN /\ \A j \in 1..Len(list_of_predictions) : SumOfScores(j) <= best
          /\ \A j \in 1..(ret.val.max_index - 1) : SumOfScores(j) < best
    /\ ret.val.name = key[ret.val.max_index]
    /\ ret.val.scores =
          FiveScores(real_data, list_of_predictions[ret.val.max_index]).val

\* C7 (as claimed): for every non-empty list of prediction tables,
\* find_best_model selects the lowest index among the tables with the
\* largest sum of five F1 scores and reports the name at that position of
\* the name list and the five scores of that table.
C7_BestOfAnyList ==
    (op = "find_best_model" /\ Len(list_of_predictions) >= 1)
    => SelectsFirstBest

\* C7 (amended): the same for every non-empty list of at most 9 tables, the
\* length of the name list.
C7_BestOfNamedList ==
    (op = "find_best_model" /\ Len(list_of_predictions) \in 1..Len(key))
    => SelectsFirstBest

\* C7 witness: the table selected ties with a later, different table.
C7_Witness ==
    /\ op = "find_best_model"
    /\ Len(list_of_predictions) \in 1..Len(key)
    /\ ret.tag = "return"
    /\ \E j \in (ret.val.max_index + 1)..Len(list_of_predictions) :
          /\ SumOfScores(j) = SumOfScores(ret.val.max_index)
          /\ list_of_predictions[j] # list_of_predictions[ret.val.max_index]
          /\ FiveScores(real_data, list_of_predictions[j]).val # ret.val.scores

====
